---- MODULE Spec2Model ----
(***************************************************************************)
(* ArucoNode (ros2_aruco/aruco_node.py): the camera-info callback, the     *)
(* image callback with its per-marker pose solve, the per-marker pose      *)
(* history (deque(maxlen=window_size)) and the smoothing of a window into  *)
(* one pose, as a state machine.                                           *)
(*                                                                         *)
(* Numbers.  Positions are integer 3-vectors; the raw positions the solver *)
(* returns have even coordinates, so that the mean of a window of          *)
(* window_size poses is exact.  Rotations are rotations about the optical  *)
(* axis; an angle is an integer number of grid steps, FullTurn steps to    *)
(* 2*pi.  The quaternion (0, 0, sin a, cos a) scaled by (1 + nrm ulp) is   *)
(* the record [ang |-> a, nrm |-> nrm]: ang is the half-angle of the       *)
(* rotation, nrm the deviation of its norm from 1 (0 for a unit            *)
(* quaternion).  Arithmetic on the grid is exact.                          *)
(***************************************************************************)
EXTENDS Integers, Sequences, FiniteSets, TLC

VARIABLES
    marker_size,    \* self.marker_size: the parameter as read at construction
    info_msg,       \* self.info_msg: None or the CameraInfo message kept
    intrinsic_mat,  \* self.intrinsic_mat: None or the 3x3 matrix
    distortion,     \* self.distortion: None or the coefficient sequence
    info_sub,       \* TRUE while the camera-info subscription exists
    pose_history,   \* self.pose_history: marker id -> window of (position, quat)
    poses_pub,      \* PoseArray messages published for the current image
    markers_pub,    \* ArucoMarkers messages published for the current image
    warned,         \* "No camera info has been received!" was logged
    alive,          \* FALSE once an exception escaped a callback (rclpy.spin re-raises)
    image,          \* the current camera image: the markers visible in it
    processed,      \* image_callback has run on the current image
    cb_info,        \* log: self.info_msg as the callback found it
    solved,         \* log: the solvePnP calls of the callback, in order
    steps,          \* log: the loop iterations that passed the ID filter
    pushed,         \* log: every pose ever appended, per marker id
    first_info,     \* log: the first CameraInfo message published
    last_info,      \* log: the latest CameraInfo message published
    fold            \* the smoother on its own: quats, and avg_quat once computed

vars == <<marker_size, info_msg, intrinsic_mat, distortion, info_sub, pose_history,
          poses_pub, markers_pub, warned, alive, image, processed,
          cb_info, solved, steps, pushed, first_info, last_info, fold>>

\* The variables of the node.
node_vars == <<marker_size, info_msg, intrinsic_mat, distortion, info_sub, pose_history,
               poses_pub, markers_pub, warned, alive, image, processed,
               cb_info, solved, steps, pushed, first_info, last_info>>

\* Python's None and a present value x, as sequences of length 0 and 1.
None == << >>
Some(x) == <<x>>

\* ------------------------------------------------------------------ bounds
\* Markers the detector reports in one image, at most.
MaxDet == 2
\* Poses appended to one marker's history over a run, at most.
MaxPush == 3
\* Length of a window given to the smoother on its own, at most.
MaxWindow == 3

\* ------------------------------------------------------- program constants
\* self.window_size
window_size == 2
\* the default of the parameter marker_size, 0.0625 m, taken as the unit of length
DefaultMarkerSize == 1
\* the marker id of `if marker_id != 1: continue`
EmitMarkerId == 1

\* ------------------------------------------------------------- value sets
FullTurn == 4 * 16
HalfTurn == FullTurn \div 2
QuarterTurn == FullTurn \div 4

\* The values of the parameter marker_size a launch may give: the default, and
\* one no marker can have, a negative length.
MarkerSizes == {0 - DefaultMarkerSize, DefaultMarkerSize}

MarkerIds == {EmitMarkerId, EmitMarkerId + 1}

\* CameraInfo messages: k is the row-major 3x3 intrinsic matrix, d the distortion.
InfoMsgs ==
    { [k |-> <<4, 0, 1, 0, 4, 1, 0, 0, 1>>, d |-> <<0, 0, 0, 0, 0>>],
      [k |-> <<8, 0, 1, 0, 8, 1, 0, 0, 1>>, d |-> << >>] }

\* A corner set as the detector reports it: npts image points forming a
\* quadrilateral of apparent side `side` pixels, turned by `rot` grid steps
\* in the image plane.  side = 0 is a degenerate quadrilateral (all points
\* coincide) on which PnP does not converge.
CornerA == [npts |-> 4, side |-> 1, rot |-> 0 - 24]
CornerB == [npts |-> 4, side |-> 2, rot |-> 24]
CornerDegenerate == [npts |-> 4, side |-> 0, rot |-> 0]
CornerMalformed == [npts |-> 3, side |-> 1, rot |-> 0]
CornerSets == {CornerA, CornerB, CornerDegenerate, CornerMalformed}

Detections == [id : MarkerIds, corners : CornerSets]

\* Norm deviations a floating-point slerp may leave behind.
Drifts == {0, 1}

\* ----------------------------------------------------------- calibration
\* np.reshape(np.array(k), (3, 3))
Reshape3x3(k) == [i \in 1..3 |-> [j \in 1..3 |-> k[3 * (i - 1) + j]]]

\* self.destroy_subscription(self.info_sub): the subscription is gone.
DestroySubscription_keeps(sub) == sub
DestroySubscription(sub) == FALSE

\* ------------------------------------------------------------ pose solver
\* An angle brought into (-HalfTurn, HalfTurn].
NormAngle(a) ==
    LET m == a % FullTurn
    IN  IF m > HalfTurn THEN m - FullTurn ELSE m

\* |x|
Abs(x) == IF x < 0 THEN 0 - x ELSE x

\* What solvePnP returns when it converges on corner set c under matrix K:
\* the depth is focal length * marker side / apparent side.  obj_points built
\* from a negative marker_size are the square turned by half a turn, and so
\* is the rotation solved.
SolveOk(c, K, D) ==
    [status |-> "ok", retval |-> TRUE,
     rvec |-> <<0, 0, IF marker_size < 0 THEN c.rot + HalfTurn ELSE c.rot>>,
     tvec |-> <<0, 0, (K[1][1][1] * Abs(marker_size)) \div c.side>>,
     K |-> K, D |-> D]

\* The outcomes of cv2.solvePnP(obj_points, img_points, K, D), K and D being
\* self.intrinsic_mat and self.distortion (None or Some(value)).  Without a
\* camera matrix, or with a number of image points other than the 4 object
\* points, OpenCV raises cv2.error.  On a degenerate quadrilateral it
\* returns retval = False and leaves unspecified values in rvec and tvec.
SolvePnP(c, K, D) ==
    IF K = None \/ D = None \/ c.npts # 4
    THEN {[status |-> "raise", retval |-> FALSE,
           rvec |-> <<0, 0, 0>>, tvec |-> <<0, 0, 0>>, K |-> K, D |-> D]}
    ELSE IF c.side = 0
    THEN {[SolveOk(g, K, D) EXCEPT !.status = "failed", !.retval = FALSE] :
            g \in {CornerA, CornerB}}
    ELSE {SolveOk(c, K, D)}

\* for corner in corners: solvePnP(...); rvecs.append; tvecs.append (the branch
\* cv2.__version__ > "4.0.0", the one taken by every OpenCV that has ArucoDetector).
\* The possible runs of the loop; a run ends at the first call that raises.
RECURSIVE SolveAll(_, _, _)
SolveAll(corners, K, D) ==
    IF corners = << >> THEN {<< >>}
    ELSE UNION {
        IF r.status = "raise" THEN {<<r>>}
        ELSE {<<r>> \o rest : rest \in SolveAll(Tail(corners), K, D)}
        : r \in SolvePnP(Head(corners), K, D)}

Raised(sol) == \E i \in 1..Len(sol) : sol[i].status = "raise"

\* cv2.Rodrigues(rvec)[0]: the rotation about the optical axis, named by its
\* angle in (-HalfTurn, HalfTurn].
Rodrigues(rvec) == NormAngle(rvec[3])

\* tf_transformations.quaternion_from_matrix: the unit quaternion with w >= 0,
\* whose half-angle is half the rotation angle.
QuaternionFromMatrix(rot) == [ang |-> rot \div 2, nrm |-> 0]

\* position = tvecs[i].reshape(3,); quat = quaternion_from_matrix(Rodrigues(rvecs[i]))
RawPose(r) == [position |-> r.tvec, quat |-> QuaternionFromMatrix(Rodrigues(r.rvec))]

\* ---------------------------------------------------------- pose history
\* deque(maxlen=window_size).append(x): append at the tail, drop the head when full.
DequeAppend_unbounded(dq, x) == Append(dq, x)
DequeAppend_clears_when_full(dq, x) ==
    IF Len(dq) >= window_size THEN <<x>> ELSE Append(dq, x)
DequeAppend_left(dq, x) ==
    LET new == <<x>> \o dq
    IN  IF Len(new) > window_size THEN SubSeq(new, 1, window_size) ELSE new
DequeAppend(dq, x) ==
    LET new == Append(dq, x)
    IN  IF Len(new) > window_size THEN Tail(new) ELSE new

\* self.pose_history[marker_id] on a defaultdict: a missing key reads as an empty deque.
HistoryOf(history, marker_id) ==
    IF marker_id \in DOMAIN history THEN history[marker_id] ELSE << >>

\* self.pose_history[marker_id].append((position, quat))
HistoryAppend(history, marker_id, pose) ==
    [m \in DOMAIN history \cup {marker_id} |->
        IF m = marker_id THEN DequeAppend(HistoryOf(history, marker_id), pose)
        ELSE history[m]]

\* ---------------------------------------------------------- pose smoother
RECURSIVE SumPositions(_)
SumPositions(ps) ==
    IF ps = << >> THEN <<0, 0, 0>>
    ELSE LET h == Head(ps)
             t == SumPositions(Tail(ps))
         IN  <<h[1] + t[1], h[2] + t[2], h[3] + t[3]>>

\* np.mean([p[0] for p in poses], axis=0)
MeanPosition_fixed_divisor(poses) ==
    LET s == SumPositions([i \in 1..Len(poses) |-> poses[i].position])
    IN  <<s[1] \div window_size, s[2] \div window_size, s[3] \div window_size>>
MeanPosition(poses) ==
    LET s == SumPositions([i \in 1..Len(poses) |-> poses[i].position])
        n == Len(poses)
    IN  <<s[1] \div n, s[2] \div n, s[3] \div n>>

\* tf_transformations.quaternion_slerp(q0, q1, 0.5): both inputs are made unit;
\* if they are equal or opposite q0 is returned; if their dot product is
\* negative q1 is negated (shortest path); the result lies halfway along the
\* arc from q0 to q1, with norm deviation `drift`.
QuaternionSlerp(q0, q1, drift) ==
    LET delta == NormAngle(q1.ang - q0.ang)
        short == IF delta > QuarterTurn THEN delta - HalfTurn
                 ELSE IF delta < 0 - QuarterTurn THEN delta + HalfTurn
                 ELSE delta
    IN  IF delta = 0 \/ delta = HalfTurn
        THEN [ang |-> q0.ang, nrm |-> 0]
        ELSE [ang |-> NormAngle(q0.ang + (short \div 2)), nrm |-> drift]

\* avg_quat = quats[0]; for q in quats[1:]: avg_quat = quaternion_slerp(avg_quat, q, 0.5)
RECURSIVE FoldSlerp_from_newest(_, _, _)
FoldSlerp_from_newest(avg_quat, quats, drift) ==
    IF quats = << >> THEN avg_quat
    ELSE QuaternionSlerp(avg_quat,
                         FoldSlerp_from_newest(Head(quats), Tail(quats), drift), drift)
RECURSIVE FoldSlerp(_, _, _)
FoldSlerp(avg_quat, quats, drift) ==
    IF quats = << >> THEN avg_quat
    ELSE FoldSlerp(QuaternionSlerp(avg_quat, Head(quats), drift), Tail(quats), drift)

\* avg_quat / np.linalg.norm(avg_quat)
Normalize_skipped(q) == q
Normalize(q) == [q EXCEPT !.nrm = 0]

\* The averaged pose of a non-empty window, oldest first.
Smooth(poses, drift) ==
    LET quats == [i \in 1..Len(poses) |-> poses[i].quat]
        avg_quat == IF Len(quats) > 1
                    THEN FoldSlerp(quats[1], Tail(quats), drift)
                    ELSE quats[1]
    IN  [position |-> MeanPosition(poses), orientation |-> Normalize(avg_quat)]

\* -------------------------------------------------------------- detector
\* self.aruco_detector.detectMarkers(cv_image): the corner sets and the N x 1
\* array of ids of the markers in the image; marker_ids is None when there
\* are none.
DetectMarkers_empty_array(img) ==
    [corners |-> [i \in 1..Len(img) |-> img[i].corners],
     marker_ids |-> Some([i \in 1..Len(img) |-> <<img[i].id>>])]
DetectMarkers(img) ==
    [corners |-> [i \in 1..Len(img) |-> img[i].corners],
     marker_ids |-> IF img = << >> THEN None
                    ELSE Some([i \in 1..Len(img) |-> <<img[i].id>>])]

\* ------------------------------------------------------- image_callback
\* if self.info_msg is None: warn and return
CalibrationMissing_never == FALSE
CalibrationMissing_inverted == info_msg # None
CalibrationMissing == info_msg = None

\* marker_id = marker_id[0]
MarkerIdOf_constant(marker_ids, i) == EmitMarkerId
MarkerIdOf(marker_ids, i) == marker_ids[i][1]

\* if marker_id != 1: continue
Skipped_never(marker_id) == FALSE
Skipped(marker_id) == marker_id # EmitMarkerId

\* tvecs[i], rvecs[i]: the solver result the iteration uses
SolutionOf_first(sol, i) == sol[1]
SolutionOf(sol, i) == sol[i]

\* markers.poses.append(pose); markers.marker_ids.append(marker_id)
AppendMarker_unique_ids(markers, marker_id, pose) ==
    [marker_ids |-> IF \E j \in 1..Len(markers.marker_ids) : markers.marker_ids[j] = marker_id
                    THEN markers.marker_ids
                    ELSE Append(markers.marker_ids, marker_id),
     poses |-> Append(markers.poses, pose)]
AppendMarker(markers, marker_id, pose) ==
    [marker_ids |-> Append(markers.marker_ids, marker_id),
     poses |-> Append(markers.poses, pose)]

\* for i, marker_id in enumerate(marker_ids): from iteration i on.  acc holds the
\* history, the two messages under construction and the record of the
\* iterations and appends made so far.
RECURSIVE MarkerLoop(_, _, _, _, _)
MarkerLoop(acc, marker_ids, sol, i, drift) ==
    IF i > Len(marker_ids) THEN acc
    ELSE LET marker_id == MarkerIdOf(marker_ids, i)
         IN  IF Skipped(marker_id)
             THEN MarkerLoop(acc, marker_ids, sol, i + 1, drift)
             ELSE LET raw == RawPose(SolutionOf(sol, i))
                      history == HistoryAppend(acc.history, marker_id, raw)
                      poses == history[marker_id]
                      pose == Smooth(poses, drift)
                  IN  MarkerLoop(
                        [history |-> history,
                         pose_array |-> Append(acc.pose_array, pose),
                         markers |-> AppendMarker(acc.markers, marker_id, pose),
                         steps |-> Append(acc.steps,
                                     [i |-> i, marker_id |-> marker_id, raw |-> raw,
                                      window |-> poses, pose |-> pose]),
                         pushed |-> [acc.pushed EXCEPT ![marker_id] = Append(@, raw)]],
                        marker_ids, sol, i + 1, drift)

\* ------------------------------------------------------------------ Init
Init ==
    /\ marker_size \in MarkerSizes
    /\ info_msg = None
    /\ intrinsic_mat = None
    /\ distortion = None
    /\ info_sub = TRUE
    /\ pose_history = << >>
    /\ poses_pub = << >>
    /\ markers_pub = << >>
    /\ warned = FALSE
    /\ alive = TRUE
    /\ image = << >>
    /\ processed = FALSE
    /\ cb_info = None
    /\ solved = << >>
    /\ steps = << >>
    /\ pushed = [m \in MarkerIds |-> << >>]
    /\ first_info = None
    /\ last_info = None
    /\ fold = [quats |-> << >>, avg_quat |-> None]

\* --------------------------------------------------------------- actions
\* The camera publishes a CameraInfo message.
InfoPublished(msg) ==
    /\ last_info' = Some(msg)
    /\ first_info' = IF first_info = None THEN Some(msg) ELSE first_info

\* info_callback(info_msg), run while the subscription exists.
InfoCallback(msg) ==
    /\ alive
    /\ UNCHANGED <<marker_size, fold>>
    /\ info_sub
    /\ InfoPublished(msg)
    /\ info_msg' = Some(msg)
    /\ intrinsic_mat' = Some(Reshape3x3(msg.k))
    /\ distortion' = Some(msg.d)
    /\ info_sub' = DestroySubscription(info_sub)
    /\ UNCHANGED <<pose_history, poses_pub, markers_pub, warned, alive, image,
                   processed, cb_info, solved, steps, pushed>>

\* A CameraInfo message published after the subscription was destroyed
\* reaches no callback.
InfoUnheard(msg) ==
    /\ alive
    /\ UNCHANGED <<marker_size, fold>>
    /\ ~info_sub
    /\ InfoPublished(msg)
    /\ UNCHANGED <<info_msg, intrinsic_mat, distortion, info_sub, pose_history,
                   poses_pub, markers_pub, warned, alive, image, processed,
                   cb_info, solved, steps, pushed>>

\* One more marker is in the view of the image the camera sends next.
CameraSees(det) ==
    /\ alive
    /\ UNCHANGED <<marker_size, fold>>
    /\ ~processed
    /\ Len(image) < MaxDet
    /\ image' = Append(image, det)
    /\ UNCHANGED <<info_msg, intrinsic_mat, distortion, info_sub, pose_history,
                   poses_pub, markers_pub, warned, alive, processed, cb_info,
                   solved, steps, pushed, first_info, last_info>>

\* The camera takes the next image; what was published for the previous one
\* has gone to the subscribers.
NewImage ==
    /\ alive
    /\ UNCHANGED <<marker_size, fold>>
    /\ processed
    /\ image' = << >>
    /\ processed' = FALSE
    /\ poses_pub' = << >>
    /\ markers_pub' = << >>
    /\ cb_info' = None
    /\ solved' = << >>
    /\ steps' = << >>
    /\ UNCHANGED <<info_msg, intrinsic_mat, distortion, info_sub, pose_history,
                   warned, alive, pushed, first_info, last_info>>

\* image_callback(img_msg) on the current image.
ImageCallback ==
    /\ alive
    /\ UNCHANGED <<marker_size, fold>>
    /\ ~processed
    /\ processed' = TRUE
    /\ cb_info' = info_msg
    /\ UNCHANGED <<info_msg, intrinsic_mat, distortion, info_sub, image,
                   first_info, last_info>>
    /\ \/ \* no calibration yet: warn and return
          /\ CalibrationMissing
          /\ warned' = TRUE
          /\ UNCHANGED <<pose_history, poses_pub, markers_pub, alive, solved,
                         steps, pushed>>
       \/ \* marker_ids is None: nothing is solved and nothing is published
          /\ ~CalibrationMissing
          /\ DetectMarkers(image).marker_ids = None
          /\ UNCHANGED <<pose_history, poses_pub, markers_pub, warned, alive,
                         solved, steps, pushed>>
       \/ \* solvePnP raises: the exception leaves the callback and ends spin
          /\ ~CalibrationMissing
          /\ DetectMarkers(image).marker_ids # None
          /\ \E sol \in SolveAll(DetectMarkers(image).corners, intrinsic_mat, distortion) :
                /\ Raised(sol)
                /\ solved' = sol
          /\ alive' = FALSE
          /\ UNCHANGED <<pose_history, poses_pub, markers_pub, warned, steps, pushed>>
       \/ \* every solvePnP call returns: filter, append, smooth, publish
          /\ ~CalibrationMissing
          /\ DetectMarkers(image).marker_ids # None
          /\ \E sol \in SolveAll(DetectMarkers(image).corners, intrinsic_mat, distortion),
                drift \in Drifts :
                LET acc == MarkerLoop(
                              [history |-> pose_history,
                               pose_array |-> << >>,
                               markers |-> [marker_ids |-> << >>, poses |-> << >>],
                               steps |-> << >>,
                               pushed |-> pushed],
                              DetectMarkers(image).marker_ids[1], sol, 1, drift)
                IN  /\ ~Raised(sol)
                    /\ \A m \in MarkerIds : Len(acc.pushed[m]) <= MaxPush
                    /\ solved' = sol
                    /\ pose_history' = acc.history
                    /\ poses_pub' = <<acc.pose_array>>
                    /\ markers_pub' = <<acc.markers>>
                    /\ steps' = acc.steps
                    /\ pushed' = acc.pushed
          /\ UNCHANGED <<warned, alive>>

Next ==
    \/ \E msg \in InfoMsgs : InfoCallback(msg)
    \/ \E msg \in InfoMsgs : InfoUnheard(msg)
    \/ \E det \in Detections : CameraSees(det)
    \/ NewImage
    \/ ImageCallback

Spec == Init /\ [][Next]_vars

\* ------------------------------------------------- the smoother on its own
\* The quaternions quaternion_from_matrix can return for a rotation about the
\* optical axis: w >= 0, half-angles on every fourth grid step.
RawQuats == {[ang |-> 4 * a, nrm |-> 0] : a \in (0 - 3)..3}

\* The windows of 1..n quaternions.
RECURSIVE Windows(_)
Windows(n) ==
    IF n = 0 THEN {}
    ELSE {<<q>> : q \in RawQuats}
         \cup Windows(n - 1)
         \cup {Append(w, q) : w \in {v \in Windows(n - 1) : Len(v) = n - 1}, q \in RawQuats}

\* A window of poses holding the quaternions qs.
PosesOf(qs) == [i \in 1..Len(qs) |-> [position |-> <<0, 0, 0>>, quat |-> qs[i]]]

FoldInit ==
    /\ marker_size = DefaultMarkerSize
    /\ info_msg = None
    /\ intrinsic_mat = None
    /\ distortion = None
    /\ info_sub = TRUE
    /\ pose_history = << >>
    /\ poses_pub = << >>
    /\ markers_pub = << >>
    /\ warned = FALSE
    /\ alive = TRUE
    /\ image = << >>
    /\ processed = FALSE
    /\ cb_info = None
    /\ solved = << >>
    /\ steps = << >>
    /\ pushed = [m \in MarkerIds |-> << >>]
    /\ first_info = None
    /\ last_info = None
    /\ \E qs \in Windows(MaxWindow) : fold = [quats |-> qs, avg_quat |-> None]

\* quats = ...; avg_quat = quats[0]; the loop over quats[1:]; the division by the norm.
FoldApply ==
    /\ fold.avg_quat = None
    /\ \E drift \in Drifts :
          fold' = [fold EXCEPT !.avg_quat = Some(Smooth(PosesOf(fold.quats), drift).orientation)]
    /\ UNCHANGED node_vars

FoldSpec == FoldInit /\ [][FoldApply]_vars

\* ================================================================ claims
\* The ids of the markers the detector reports in the current image.
ImageIds == {image[i].id : i \in 1..Len(image)}

\* The node runs with the default marker size.
DefaultConfig == marker_size = DefaultMarkerSize

\* The callback ran on the current image with a calibration received before it.
ReadyFrame == processed /\ cb_info # None

\* Loop iteration i of the current callback appended to a history and emitted.
Stepped(i) == \E k \in 1..Len(steps) : steps[k].i = i

\* The last n elements of a sequence.
LastN(s, n) == IF Len(s) <= n THEN s ELSE SubSeq(s, Len(s) - n + 1, Len(s))

\* The marker ids and the poses in the messages published for the current image.
PublishedIds ==
    UNION {{markers_pub[k].marker_ids[j] : j \in 1..Len(markers_pub[k].marker_ids)} :
             k \in 1..Len(markers_pub)}
PublishedPoses ==
    UNION {{markers_pub[k].poses[j] : j \in 1..Len(markers_pub[k].poses)} :
             k \in 1..Len(markers_pub)}
    \cup UNION {{poses_pub[k][j] : j \in 1..Len(poses_pub[k])} : k \in 1..Len(poses_pub)}

\* C1: every marker's history holds at most window_size poses, and they are
\* the last window_size poses appended for that marker, oldest first.
C1_HistoryIsLastWindow ==
    \A m \in MarkerIds :
        /\ Len(HistoryOf(pose_history, m)) <= window_size
        /\ HistoryOf(pose_history, m) = LastN(pushed[m], window_size)

C1_Witness ==
    /\ Len(pushed[EmitMarkerId]) > window_size
    /\ pushed[EmitMarkerId][1] # pushed[EmitMarkerId][Len(pushed[EmitMarkerId])]
    /\ Len(pose_history[EmitMarkerId]) = window_size

C3_CalibrationCapturedOnce ==
    first_info # None =>
        /\ info_msg = first_info
        /\ intrinsic_mat = Some(Reshape3x3(first_info[1].k))
        /\ distortion = Some(first_info[1].d)

C3_Witness ==
    /\ first_info # None
    /\ last_info # first_info
    /\ info_msg = first_info

C5_OneBatchPerReadyFrame ==
    (DefaultConfig /\ ReadyFrame /\ alive) => (Len(poses_pub) = 1 /\ Len(markers_pub) = 1)

\* C5 amended: a frame processed after calibration publishes exactly one
\* batch on each output when the detector reports at least one marker and no
\* solve raises, and nothing otherwise; never more than one.
C5_OneBatchWhenMarkersDetected ==
    /\ Len(poses_pub) <= 1
    /\ Len(markers_pub) <= 1
    /\ ReadyFrame =>
          IF image # << >> /\ alive
          THEN Len(poses_pub) = 1 /\ Len(markers_pub) = 1
          ELSE poses_pub = << >> /\ markers_pub = << >>

C5_Witness ==
    /\ ReadyFrame /\ alive
    /\ image # << >>
    /\ poses_pub = << << >> >>
    /\ Len(markers_pub) = 1 /\ markers_pub[1].marker_ids = << >>

\* C6 as stated: a marker whose solve failed is not appended and not emitted,
\* the frame is not aborted, and the other markers that pass the filter are
\* appended and emitted.
C6_SolveFailureOmitsMarker ==
    (DefaultConfig /\ ReadyFrame) =>
        \A i \in 1..Len(solved) :
            solved[i].status = "failed" =>
                /\ alive
                /\ ~Stepped(i)
                /\ \A j \in 1..Len(image) :
                      (j # i /\ solved[j].retval /\ image[j].id = EmitMarkerId)
                          => Stepped(j)

\* C7: a marker the detector does not report in the current image has no entry
\* in what is published for it, and nothing is appended for it.
C7_AbsentMarkerNotEmitted ==
    \A m \in MarkerIds \ ImageIds :
        /\ m \notin PublishedIds
        /\ \A k \in 1..Len(steps) : steps[k].marker_id # m

C7_Witness ==
    /\ ReadyFrame /\ alive
    /\ image # << >>
    /\ EmitMarkerId \notin ImageIds
    /\ HistoryOf(pose_history, EmitMarkerId) # << >>
    /\ Len(markers_pub) = 1

\* C8: every call of the solver is made with the intrinsic matrix and the
\* distortion coefficients both set, and they are the stored ones.
C8_SolveOnlyWithCalibration ==
    \A i \in 1..Len(solved) :
        /\ solved[i].K # None
        /\ solved[i].D # None
        /\ solved[i].K = intrinsic_mat
        /\ solved[i].D = distortion

C8_Witness ==
    /\ processed
    /\ solved # << >>
    /\ solved[1].status = "ok"

\* C9 as stated: a detection with other than 4 corners is omitted, the frame is
\* not aborted, and the other markers that pass the filter are appended and
\* emitted.
C9_MalformedDetectionOmitted ==
    (DefaultConfig /\ ReadyFrame) =>
        \A i \in 1..Len(image) :
            image[i].corners.npts # 4 =>
                /\ alive
                /\ ~Stepped(i)
                /\ \A j \in 1..Len(image) :
                      (j # i /\ image[j].corners.npts = 4 /\ image[j].id = EmitMarkerId)
                          => Stepped(j)

\* C10: when the window of a marker holds one pose, the pose emitted for it is
\* that pose: the same position and the same quaternion.
C10_SingletonWindowUnchanged ==
    \A k \in 1..Len(steps) :
        Len(steps[k].window) = 1 =>
            /\ steps[k].pose.position = steps[k].window[1].position
            /\ steps[k].pose.orientation = steps[k].window[1].quat
            /\ markers_pub[1].poses[k] = steps[k].pose
            /\ poses_pub[1][k] = steps[k].pose

C10_Witness ==
    \E k \in 1..Len(steps) :
        /\ Len(steps[k].window) = 1
        /\ steps[k].window[1].quat.ang # 0
        /\ markers_pub[1].poses[k].position = steps[k].window[1].position

\* C11: the orientation of the smoothed pose is the left-nested halfway
\* blend of the window in its order: blend(..blend(blend(q0, q1), q2).., qk),
\* made unit.
RECURSIVE LeftNested(_, _)
LeftNested(qs, drift) ==
    IF Len(qs) = 1 THEN qs[1]
    ELSE QuaternionSlerp(LeftNested(SubSeq(qs, 1, Len(qs) - 1), drift), qs[Len(qs)], drift)

\* The other association: blend(q0, blend(q1, ..blend(qk-1, qk)..)).
RECURSIVE RightNested(_, _)
RightNested(qs, drift) ==
    IF Len(qs) = 1 THEN qs[1]
    ELSE QuaternionSlerp(qs[1], RightNested(Tail(qs), drift), drift)

C11_OrientationIsLeftFold ==
    fold.avg_quat # None =>
        \A drift \in Drifts :
            fold.avg_quat[1] = Normalize(LeftNested(fold.quats, drift))

C11_Witness ==
    /\ fold.avg_quat # None
    /\ Len(fold.quats) = 3
    /\ fold.quats[1] # fold.quats[2] /\ fold.quats[2] # fold.quats[3]
    /\ \A drift \in Drifts : fold.avg_quat[1] # Normalize(RightNested(fold.quats, drift))

\* C12 as stated: a node constructed with a marker size no marker can have
\* takes no calibration and no frame.
C12_InvalidConfigurationFatal ==
    marker_size <= 0 =>
        \/ ~alive
        \/ (info_msg = None /\ ~processed /\ pose_history = << >>)

\* C13: the orientation of every pose published is a unit quaternion.
C13_EmittedOrientationUnit ==
    \A p \in PublishedPoses : p.orientation.nrm = 0

C13_Witness ==
    /\ Len(markers_pub) = 1
    /\ \E k \in 1..Len(steps) :
          /\ Len(steps[k].window) = window_size
          /\ steps[k].window[1].quat # steps[k].window[2].quat
          /\ markers_pub[1].poses[k].orientation.ang # steps[k].window[1].quat.ang
          /\ markers_pub[1].poses[k].orientation.ang # steps[k].window[2].quat.ang

\* The raw poses appended for marker m in the iterations st, in order.
RECURSIVE RawsFor(_, _)
RawsFor(st, m) ==
    IF st = << >> THEN << >>
    ELSE IF Head(st).marker_id = m
         THEN <<Head(st).raw>> \o RawsFor(Tail(st), m)
         ELSE RawsFor(Tail(st), m)

\* C14: a step changes the history of marker m only if it is the image
\* callback, run with a calibration on an image in which m is detected, and
\* then by appending m's raw poses of that image; a history never disappears
\* and never gets shorter.
C14_HistoryChangedOnlyByOwnPush ==
    [][\A m \in MarkerIds :
          LET old == HistoryOf(pose_history, m)
              new == HistoryOf(pose_history', m)
          IN  /\ m \in DOMAIN pose_history => m \in DOMAIN pose_history'
              /\ Len(new) >= Len(old)
              /\ new # old =>
                    /\ ~processed /\ processed'
                    /\ cb_info' # None
                    /\ \E i \in 1..Len(image) : image[i].id = m
                    /\ RawsFor(steps', m) # << >>
                    /\ new = LastN(old \o RawsFor(steps', m), window_size)]_vars

C14_Witness ==
    /\ ReadyFrame /\ alive
    /\ Len(image) = 1
    /\ image[1].id # EmitMarkerId
    /\ solved[1].retval
    /\ Len(HistoryOf(pose_history, EmitMarkerId)) = window_size
    /\ pose_history[EmitMarkerId] = LastN(pushed[EmitMarkerId], window_size)

\* C15: the window every emitted pose is computed from is not empty, and its
\* newest element is the raw pose just solved for that marker in this frame.
C15_WindowEndsWithCurrentRawPose ==
    \A k \in 1..Len(steps) :
        /\ steps[k].window # << >>
        /\ steps[k].window[Len(steps[k].window)] = steps[k].raw
        /\ steps[k].raw = RawPose(solved[steps[k].i])
        /\ \E drift \in Drifts : steps[k].pose = Smooth(steps[k].window, drift)

C15_Witness ==
    \E k \in 1..Len(steps) :
        /\ Len(steps[k].window) = window_size
        /\ steps[k].window[1] # steps[k].window[window_size]
        /\ steps[k].window[window_size] = steps[k].raw

\* The detections of the current image that pass the filter and whose solve succeeded.
SolvedAllowed ==
    {i \in 1..Len(image) :
        image[i].id = EmitMarkerId /\ i <= Len(solved) /\ solved[i].retval}

\* C16 as stated: the batch of a frame processed after calibration holds one
\* entry for each detection that passes the filter and whose solve succeeded,
\* and no other entry.
C16_OneEntryPerSolvedAllowedMarker ==
    (DefaultConfig /\ ReadyFrame /\ alive /\ image # << >>) =>
        /\ Len(markers_pub) = 1
        /\ {steps[k].i : k \in 1..Len(steps)} = SolvedAllowed
        /\ Len(markers_pub[1].poses) = Cardinality(SolvedAllowed)
        /\ Len(poses_pub[1]) = Cardinality(SolvedAllowed)

\* C17: the raw pose appended in iteration i is the solver's result for the
\* i-th corner set, and the id it is appended under is the i-th id.
C17_IdPairedWithOwnSolve ==
    \A k \in 1..Len(steps) :
        LET i == steps[k].i
        IN  /\ i \in 1..Len(image)
            /\ steps[k].marker_id = image[i].id
            /\ solved[i] \in SolvePnP(image[i].corners, intrinsic_mat, distortion)
            /\ steps[k].raw = RawPose(solved[i])
            /\ \E j \in 1..Len(pushed[image[i].id]) : pushed[image[i].id][j] = steps[k].raw

C17_Witness ==
    /\ Len(image) = 2
    /\ image[1].corners = CornerA
    /\ image[2].corners = CornerB /\ image[2].id = EmitMarkerId
    /\ \E k \in 1..Len(steps) : steps[k].i = 2

\* C18: in what is published for a frame the id list and the pose list of the
\* ArucoMarkers message have the same length, their j-th entries are the id
\* and the smoothed pose of the same loop iteration, and the PoseArray holds
\* the same poses in the same order.
C18_IdsAndPosesAligned ==
    /\ Len(poses_pub) = Len(markers_pub)
    /\ \A n \in 1..Len(markers_pub) :
          /\ Len(markers_pub[n].marker_ids) = Len(markers_pub[n].poses)
          /\ poses_pub[n] = markers_pub[n].poses
          /\ Len(markers_pub[n].marker_ids) = Len(steps)
          /\ \A j \in 1..Len(steps) :
                /\ markers_pub[n].marker_ids[j] = steps[j].marker_id
                /\ markers_pub[n].poses[j] = steps[j].pose
                /\ steps[j].window[Len(steps[j].window)]
                     = RawPose(solved[steps[j].i])
                /\ image[steps[j].i].id = markers_pub[n].marker_ids[j]

C18_Witness ==
    /\ Len(markers_pub) = 1
    /\ Len(markers_pub[1].marker_ids) = 2
    /\ markers_pub[1].poses[1] # markers_pub[1].poses[2]

====
